---- MODULE Spec2Model ----
(***************************************************************************)
(* Payment-risk insight platform: the batch scripts as state machines.     *)
(*                                                                         *)
(*   SpecPipeline : preprocess_paysim.py main, feature_engineering_v1.py   *)
(*                  main (raw CSV -> processed parquet -> feature parquet) *)
(*   SpecExplain  : explainability_v1.py main (scores + impact values ->   *)
(*                  global importance and per-transaction explanations)    *)
(*   SpecReview   : explain_cli.py main and dashboard.py (policy decision  *)
(*                  on a saved explanation record)                         *)
(*   SpecBatch    : the three batch scripts together, on inputs that make  *)
(*                  them fail                                              *)
(*                                                                         *)
(* Files on disk are variables; a run of a script is one action.  Reals    *)
(* are integers or exact fractions [num, den]; float rounding is not       *)
(* modelled.                                                               *)
(***************************************************************************)
EXTENDS Integers, Sequences, FiniteSets, TLC

VARIABLES
    raw,             \* data/raw/transactions.csv: [cols, rows]
    processed_file,  \* data/processed/paysim_processed_v1.parquet, or NoFile
    features_file,   \* data/processed/paysim_features_v1_1.parquet, or NoFile
    pre_run,         \* outcome of the preprocessing script
    feat_run,        \* outcome of the feature-engineering script
    test_set,        \* what explainability main loads: scores, labels, X_test, impacts
    explain_run,     \* outcome and locals of the explainability script
    GLOBAL_OUT,      \* xgb_v1_global_importance.json, or NoFile
    LOCAL_OUT,       \* xgb_v1_sample_explanations.json, or NoFile
    policy,          \* artifacts/policies/decision_policy_v1.json
    cli_run,         \* outcome of explain_cli main
    dash_run,        \* outcome of one dashboard script run
    audit_log        \* artifacts/audit/generation_logs.jsonl, a sequence of records

vars == <<raw, processed_file, features_file, pre_run, feat_run, test_set,
          explain_run, GLOBAL_OUT, LOCAL_OUT, policy, cli_run, dash_run, audit_log>>

pipeline_vars == <<raw, processed_file, features_file, pre_run, feat_run>>

explain_vars == <<test_set, explain_run, GLOBAL_OUT, LOCAL_OUT>>

review_vars == <<policy, cli_run, dash_run, audit_log>>

(***************************************************************************)
(* Bounds of the model.                                                    *)
(***************************************************************************)
MaxRows == 3
WINDOW_SIZE == 2        \* window_size of the rolling aggregates (24 in the source)
MaxPop == 4             \* records in the test set
NumFeatures == 3        \* features of the model bundle
TOP_RISK_SAMPLES == 2   \* 200 in the source
SHAP_SAMPLE_SIZE == 2   \* 2000 in the source
TOP_K_FEATURES == 2     \* 5 in the source
GLOBAL_TOP == 2         \* the 20 of global_importance[:20]

(***************************************************************************)
(* Generic helpers.                                                        *)
(***************************************************************************)
Null == "<null>"
NoFile == [exists |-> FALSE]
Idle == [status |-> "idle"]

Range(s) == {s[i] : i \in DOMAIN s}

Min(a, b) == IF a <= b THEN a ELSE b

Injections(n, m) == {p \in [1..n -> 1..m] : \A i, j \in 1..n : i # j => p[i] # p[j]}

RECURSIVE SumOver(_, _)
SumOver(f, S) ==
    IF S = {} THEN 0
    ELSE LET x == CHOOSE y \in S : TRUE IN f[x] + SumOver(f, S \ {x})

(***************************************************************************)
(* preprocess_paysim.py                                                    *)
(***************************************************************************)
HASH_SALT == "paysim_project_salt_v1"

\* The list with the first name misspelt.
LEAKAGE_COLUMNS_Misspelt ==
    <<"oldbalanceOrig", "newbalanceOrig", "oldbalanceDest", "newbalanceDest">>

LEAKAGE_COLUMNS == <<"oldbalanceOrg", "newbalanceOrig", "oldbalanceDest", "newbalanceDest">>

required_columns ==
    {"step", "type", "amount", "nameOrig", "nameDest", "isFraud", "isFlaggedFraud"}

\* hashlib.sha256(...).hexdigest() on the byte strings the model hashes.
SHA256Hex(s) ==
    CASE s = "C1_paysim_project_salt_v1" ->
            "2958a708e63c1f81c966df96c2a4c6441e9a1d9134314334aeb6cb59c5a1e42c"
      [] s = "C2_paysim_project_salt_v1" ->
            "7e04b3b7df3250b77fdc55fcca6858d6af115bd132b51f1d68fd9a0fb6ef9a8f"
      [] s = "M1_paysim_project_salt_v1" ->
            "9ba1d841ae35679214ae9263769307026e6e82ce15760a99c342dec51334abfb"

hash_identifier(value) ==
    IF value = Null THEN Null ELSE SHA256Hex(value \o "_" \o HASH_SALT)

\* A check that stops at the first missing column.
validate_schema_FirstOnly(cols) ==
    LET missing == required_columns \ cols
    IN  [raised |-> missing # {},
         missing |-> IF missing = {} THEN {} ELSE {CHOOSE c \in missing : TRUE}]

\* The set difference of line 64; raised is the `if missing:` of line 65 and
\* missing is what the ValueError message prints.
validate_schema(cols) ==
    LET missing == required_columns \ cols
    IN  [raised |-> missing # {}, missing |-> missing]

\* Lines 82-83: drop the leakage columns that are present.
cols_to_drop(cols) == {c \in Range(LEAKAGE_COLUMNS) : c \in cols}

DropLeakage(cols) == cols \ cols_to_drop(cols)

\* Line 90: distinct non-null names of both roles.
unique_names(rows) ==
    ({rows[i].nameOrig : i \in DOMAIN rows} \cup {rows[i].nameDest : i \in DOMAIN rows})
        \ {Null}

\* Lines 93-100: the (name, hashed_id) table.
mapping_df(rows) == {[name |-> n, hashed_id |-> hash_identifier(n)] : n \in unique_names(rows)}

\* A left join on the name: the matching hashed_id, null when nothing matches
\* (a null key matches nothing).
LeftJoin(key, mapping) ==
    IF key # Null /\ \E m \in mapping : m.name = key
    THEN (CHOOSE m \in mapping : m.name = key).hashed_id
    ELSE Null

\* The second join keyed on the source column again.
counterparty_id_of_WrongKey(r, mapping) == LeftJoin(r.nameOrig, mapping)

account_id_of(r, mapping) == LeftJoin(r.nameOrig, mapping)

counterparty_id_of(r, mapping) == LeftJoin(r.nameDest, mapping)

\* Lines 114-121.
hour(step) == step % 24

day(step) == step \div 24

is_night(step) == IF hour(step) >= 0 /\ hour(step) <= 5 THEN 1 ELSE 0

\* Sort order of the account_id column: nulls first, then the hex digests in
\* string order.
AccountRank(a) ==
    CASE a = Null -> 0
      [] a = "2958a708e63c1f81c966df96c2a4c6441e9a1d9134314334aeb6cb59c5a1e42c" -> 1
      [] a = "7e04b3b7df3250b77fdc55fcca6858d6af115bd132b51f1d68fd9a0fb6ef9a8f" -> 2
      [] a = "9ba1d841ae35679214ae9263769307026e6e82ce15760a99c342dec51334abfb" -> 3

KeyLess(r, s) ==
    \/ AccountRank(r.account_id) < AccountRank(s.account_id)
    \/ r.account_id = s.account_id /\ r.step < s.step

\* A sort on the step alone.
SortOutcomes_StepOnly(rows) ==
    LET n == Len(rows)
    IN  {[i \in 1..n |-> rows[p[i]]] :
            p \in {q \in Injections(n, n) :
                     \A i, j \in 1..n : i < j => rows[q[i]].step <= rows[q[j]].step}}

\* df.sort(["account_id", "step"]) keeps no order among rows of equal key
\* (maintain_order is off): every ordering of the rows by key is an outcome.
SortOutcomes(rows) ==
    LET n == Len(rows)
    IN  {[i \in 1..n |-> rows[p[i]]] :
            p \in {q \in Injections(n, n) :
                     \A i, j \in 1..n : i < j => ~KeyLess(rows[q[j]], rows[q[i]])}}

\* .over("account_id", order_by="step") orders each group by step before the
\* rolling function runs; that ordering keeps no order among rows of equal
\* step either.  A window order is a permutation of the frame positions by
\* (account_id, step); only the relative order inside a group matters.
WindowOrders(rows) ==
    LET n == Len(rows)
    IN  {q \in Injections(n, n) :
            \A i, j \in 1..n : i < j => ~KeyLess(rows[q[j]], rows[q[i]])}

\* Place of frame row i in the window order w.
RankIn(w, i) == CHOOSE k \in DOMAIN w : w[k] = i

\* Position of row i within its account group, in the window order.
GroupPos(rows, w, i) ==
    Cardinality({j \in DOMAIN rows : /\ rows[j].account_id = rows[i].account_id
                                     /\ RankIn(w, j) <= RankIn(w, i)})

\* The rows of i's group that fall in the trailing window ending at i.
WindowRows(rows, w, i) ==
    {j \in DOMAIN rows : /\ rows[j].account_id = rows[i].account_id
                         /\ RankIn(w, j) <= RankIn(w, i)
                         /\ GroupPos(rows, w, i) - GroupPos(rows, w, j) < WINDOW_SIZE}

\* Lines 133-134: the rolled operand is the literal pl.lit(1), one value and
\* not a column of ones, so rolling_sum sees [1] in every group and yields 1.
txn_count_24h(rows, w, i) == 1

\* In a group of two or more rows that one value does not have the length of
\* the group: the window expression either broadcasts it or raises
\* ComputeError, depending on the polars release.
literal_window_mismatch(rows) ==
    \E i, j \in DOMAIN rows : i # j /\ rows[i].account_id = rows[j].account_id

\* Lines 137-138: rolling_mean of amount over the account.
avg_amount_24h(rows, w, i) ==
    [num |-> SumOver([j \in DOMAIN rows |-> rows[j].amount], WindowRows(rows, w, i)),
     den |-> Cardinality(WindowRows(rows, w, i))]

\* Line 142: amount - avg_amount_24h, as a fraction.
amount_deviation(amount, avg) == [num |-> amount * avg.den - avg.num, den |-> avg.den]

\* Line 147: one indicator column per type value that occurs in the batch.
DummyName(t) == "txn_type_" \o t

dummy_columns(rows) == {DummyName(rows[i].type) : i \in DOMAIN rows}

to_dummies(r, rows) == [c \in dummy_columns(rows) |-> IF c = DummyName(r.type) THEN 1 ELSE 0]

\* Lines 103-121: identifiers replaced by keys, calendar fields added.
\* row_nr is the position of the row in the raw batch (not a column of the
\* frame; kept to relate output rows to input rows).
HashAndTime(rows) ==
    LET mapping == mapping_df(rows)
    IN  [i \in DOMAIN rows |->
            [row_nr          |-> i,
             step            |-> rows[i].step,
             type            |-> rows[i].type,
             amount          |-> rows[i].amount,
             isFraud         |-> rows[i].isFraud,
             account_id      |-> account_id_of(rows[i], mapping),
             counterparty_id |-> counterparty_id_of(rows[i], mapping),
             hour            |-> hour(rows[i].step),
             day             |-> day(rows[i].step),
             is_night        |-> is_night(rows[i].step)]]

\* Lines 131-147 on the sorted frame, the groups ordered as w.
Behavioural(rows, w) ==
    [i \in DOMAIN rows |->
        LET avg == avg_amount_24h(rows, w, i)
        IN  [row_nr           |-> rows[i].row_nr,
             step             |-> rows[i].step,
             amount           |-> rows[i].amount,
             isFraud          |-> rows[i].isFraud,
             account_id       |-> rows[i].account_id,
             counterparty_id  |-> rows[i].counterparty_id,
             hour             |-> rows[i].hour,
             day              |-> rows[i].day,
             is_night         |-> rows[i].is_night,
             txn_count_24h    |-> txn_count_24h(rows, w, i),
             avg_amount_24h   |-> avg,
             amount_deviation |-> amount_deviation(rows[i].amount, avg),
             txn_type         |-> to_dummies(rows[i], rows)]]

\* Column names of the processed frame.
processed_columns(cols, rows) ==
    ((DropLeakage(cols) \ {"nameOrig", "nameDest", "type"})
        \cup {"account_id", "counterparty_id", "hour", "day", "is_night",
              "txn_count_24h", "avg_amount_24h", "amount_deviation"})
        \cup dummy_columns(rows)

\* The final checks without the one on the labels.
sanity_error_AmountOnly(rows) ==
    IF \E i \in DOMAIN rows : rows[i].amount < 0
    THEN "Negative transaction amounts detected"
    ELSE ""

\* Lines 151-152: the two final assertions.
sanity_error(rows) ==
    IF \E i \in DOMAIN rows : rows[i].amount < 0
    THEN "Negative transaction amounts detected"
    ELSE IF \E i \in DOMAIN rows : rows[i].isFraud \notin {0, 1}
    THEN "Invalid fraud labels detected"
    ELSE ""

\* preprocess_paysim(df): the outcomes of one call, one per sort outcome and
\* window order, and the ComputeError of the literal window (raised at line
\* 131, before the assertions).
\* Each is [raised, error, missing, cols, rows].
preprocess_paysim(df) ==
    LET v == validate_schema(df.cols)
    IN  IF v.raised
        THEN {[raised |-> TRUE, error |-> "Missing required columns",
               missing |-> v.missing, cols |-> {}, rows |-> <<>>]}
        ELSE (IF literal_window_mismatch(HashAndTime(df.rows))
              THEN {[raised |-> TRUE, error |-> "ComputeError",
                     missing |-> {}, cols |-> {}, rows |-> <<>>]}
              ELSE {})
             \cup
             (IF sanity_error(df.rows) # ""
              THEN {[raised |-> TRUE, error |-> sanity_error(df.rows),
                     missing |-> {}, cols |-> {}, rows |-> <<>>]}
              ELSE UNION {{[raised |-> FALSE, error |-> "", missing |-> {},
                            cols |-> processed_columns(df.cols, df.rows),
                            rows |-> Behavioural(sorted, w)] :
                              w \in WindowOrders(sorted)} :
                          sorted \in SortOutcomes(HashAndTime(df.rows))})

\* main(), lines 161-175: the parquet file is written only after
\* preprocess_paysim returned.
PreprocessMain ==
    /\ pre_run.status = "idle"
    /\ \E out \in preprocess_paysim(raw) :
          IF out.raised
          THEN /\ pre_run' = [status |-> "error", error |-> out.error, missing |-> out.missing]
               /\ UNCHANGED processed_file
          ELSE /\ pre_run' = [status |-> "done", error |-> "", missing |-> {}]
               /\ processed_file' = [exists |-> TRUE, cols |-> out.cols, rows |-> out.rows]
    /\ UNCHANGED <<raw, features_file, feat_run, explain_vars, review_vars>>

(***************************************************************************)
(* feature_engineering_v1.py                                               *)
(***************************************************************************)
RECENCY_CLIP == 168

SEQUENCE_HORIZON == 6

\* The columns add_features reads by name.
feature_inputs ==
    {"account_id", "step", "amount", "avg_amount_24h", "txn_type_TRANSFER", "txn_type_CASH_OUT"}

\* Rows before i of i's account, in frame order.
EarlierInGroup(rows, i) == {j \in 1..(i - 1) : rows[j].account_id = rows[i].account_id}

MaxOf(S) == CHOOSE x \in S : \A y \in S : y <= x

\* The difference without its clip.
time_since_last_txn_hr_NoClip(rows, i) ==
    IF EarlierInGroup(rows, i) = {} THEN 0
    ELSE rows[i].step - rows[MaxOf(EarlierInGroup(rows, i))].step

\* Lines 20-23: step - step.shift(1).over(account), clipped, null -> 0.
time_since_last_txn_hr(rows, i) ==
    IF EarlierInGroup(rows, i) = {} THEN 0
    ELSE Min(rows[i].step - rows[MaxOf(EarlierInGroup(rows, i))].step, RECENCY_CLIP)

\* Lines 26-28: amount / (avg_amount_24h + 1e-6), as the fraction
\* num / (den_e6 / 10^6): with avg = s / c it is amount * c / (s + c * 1e-6).
amount_ratio_24h(amount, avg) ==
    [num |-> amount * avg.den, den_e6 |-> avg.num * 1000000 + avg.den]

\* Lines 31-32.
is_transfer(r) == r.txn_type["txn_type_TRANSFER"]

is_cash_out(r) == r.txn_type["txn_type_CASH_OUT"]

\* The forward fill without its .over("account_id").
last_transfer_step_NoGroup(rows, i) ==
    LET T == {j \in 1..i : is_transfer(rows[j]) = 1}
    IN  IF T = {} THEN {} ELSE {rows[MaxOf(T)].step}

\* Lines 38-43: the step of the latest transfer row of the group up to and
\* including row i; the empty set stands for null.
last_transfer_step(rows, i) ==
    LET T == {j \in 1..i : /\ rows[j].account_id = rows[i].account_id
                            /\ is_transfer(rows[j]) = 1}
    IN  IF T = {} THEN {} ELSE {rows[MaxOf(T)].step}

\* The comparison made strict.
transfer_in_last_6h_Strict(rows, i) ==
    LET last == last_transfer_step(rows, i)
    IN  IF last = {} THEN 0
        ELSE IF \E s \in last : rows[i].step - s < SEQUENCE_HORIZON THEN 1 ELSE 0

\* Lines 46-49.
transfer_in_last_6h(rows, i) ==
    LET last == last_transfer_step(rows, i)
    IN  IF last = {} THEN 0
        ELSE IF \E s \in last : rows[i].step - s <= SEQUENCE_HORIZON THEN 1 ELSE 0

\* Lines 52-54.
transfer_then_cashout_6h(rows, i) == transfer_in_last_6h(rows, i) * is_cash_out(rows[i])

FeatureRows(rows) ==
    [i \in DOMAIN rows |->
        rows[i] @@
        [time_since_last_txn_hr   |-> time_since_last_txn_hr(rows, i),
         amount_ratio_24h         |-> amount_ratio_24h(rows[i].amount, rows[i].avg_amount_24h),
         is_transfer              |-> is_transfer(rows[i]),
         is_cash_out              |-> is_cash_out(rows[i]),
         transfer_in_last_6h      |-> transfer_in_last_6h(rows, i),
         transfer_then_cashout_6h |-> transfer_then_cashout_6h(rows, i)]]

feature_columns(cols) ==
    cols \cup {"time_since_last_txn_hr", "amount_ratio_24h", "is_transfer", "is_cash_out",
               "transfer_in_last_6h", "transfer_then_cashout_6h"}

\* add_features(lazy_df), collected: the outcomes, one per sort outcome.  A
\* column the expressions name but the frame lacks is a ColumnNotFoundError.
add_features(df) ==
    IF ~(feature_inputs \subseteq df.cols)
    THEN {[raised |-> TRUE, error |-> "ColumnNotFoundError",
           missing |-> feature_inputs \ df.cols, cols |-> {}, rows |-> <<>>]}
    ELSE {[raised |-> FALSE, error |-> "", missing |-> {},
           cols |-> feature_columns(df.cols), rows |-> FeatureRows(sorted)] :
             sorted \in SortOutcomes(df.rows)}

\* main(), lines 59-76: scan the processed file, sink the feature file.
FeatureEngineeringMain ==
    /\ feat_run.status = "idle"
    /\ IF ~processed_file.exists
       THEN /\ feat_run' = [status |-> "error", error |-> "FileNotFoundError", missing |-> {}]
            /\ UNCHANGED features_file
       ELSE \E out \in add_features(processed_file) :
              IF out.raised
              THEN /\ feat_run' = [status |-> "error", error |-> out.error,
                                   missing |-> out.missing]
                   /\ UNCHANGED features_file
              ELSE /\ feat_run' = [status |-> "done", error |-> "", missing |-> {}]
                   /\ features_file' = [exists |-> TRUE, cols |-> out.cols, rows |-> out.rows]
    /\ UNCHANGED <<raw, processed_file, pre_run, explain_vars, review_vars>>

(***************************************************************************)
(* Raw batches the pipeline is run on.                                     *)
(***************************************************************************)
Names == {"C1", "C2"}

Types == <<"TRANSFER", "CASH_OUT", "PAYMENT">>

Steps == {0, 6, 7, 200}

Amounts == {0, 10, 40}

\* The PaySim column names: the seven the pipeline needs and the four balance
\* columns.
SevenRequired == {"step", "type", "amount", "nameOrig", "nameDest", "isFraud", "isFlaggedFraud"}

LeakageNames == {"oldbalanceOrg", "newbalanceOrig", "oldbalanceDest", "newbalanceDest"}

AllColumns == SevenRequired \cup LeakageNames

TypeAt(i) == Types[((i - 1) % Len(Types)) + 1]

RawRow(step, type, amount, orig, dest, label) ==
    [step |-> step, type |-> type, amount |-> amount,
     nameOrig |-> orig, nameDest |-> dest, isFraud |-> label]

\* The batches a run starts from (a batch with no identifier at all is left
\* out: its name table has no string column to join on).
RawBatchIs(b) ==
    \* any column set, over a two-row batch
    \/ \E missing \in SUBSET SevenRequired, leak \in SUBSET LeakageNames,
          extra \in {{}, {"extraColumn"}} :
          b = [cols |-> ((SevenRequired \ missing) \cup leak) \cup extra,
               rows |-> <<RawRow(1, "TRANSFER", 10, "C1", "M1", 0),
                          RawRow(2, "CASH_OUT", 10, "C1", "M1", 1)>>]
    \* any identifiers, null included, in both roles
    \/ \E n \in 1..MaxRows :
          \E o \in [1..n -> Names \cup {Null}], d \in [1..n -> Names \cup {Null}] :
             /\ \E i \in 1..n : o[i] # Null \/ d[i] # Null
             /\ b = [cols |-> AllColumns,
                     rows |-> [i \in 1..n |-> RawRow(i, TypeAt(i), 10, o[i], d[i], 0)]]
    \* any steps (in ledger order, at most two records at the same step), types
    \* and accounts
    \/ \E n \in 1..MaxRows :
          \E st \in [1..n -> Steps], ty \in [1..n -> Range(Types)], o \in [1..n -> Names] :
             /\ \A i, j \in 1..n : i < j => st[i] <= st[j]
             /\ Cardinality(Range(st)) >= n - 1
             /\ b = [cols |-> AllColumns,
                     rows |-> [i \in 1..n |-> RawRow(st[i], ty[i], 10, o[i], "M1", 0)]]
    \* any amounts and accounts
    \/ \E n \in 1..MaxRows :
          \E a \in [1..n -> Amounts], o \in [1..n -> Names] :
             b = [cols |-> AllColumns,
                  rows |-> [i \in 1..n |-> RawRow(i, TypeAt(i), a[i], o[i], "M1", 0)]]
    \* a transfer and two cash-outs at units 0, 3, 30, on any accounts
    \/ \E o \in [1..3 -> Names] :
          b = [cols |-> AllColumns,
               rows |-> <<RawRow(0, "TRANSFER", 10, o[1], "M1", 0),
                          RawRow(3, "CASH_OUT", 20, o[2], "M1", 0),
                          RawRow(30, "CASH_OUT", 1000, o[3], "M1", 0)>>]
    \* amounts and labels the final assertions reject
    \/ \E n \in 1..2 :
          \E a \in [1..n -> {-5, 10}], l \in [1..n -> {0, 1, 2}] :
             b = [cols |-> AllColumns,
                  rows |-> [i \in 1..n |-> RawRow(i, TypeAt(i), a[i], "C1", "M1", l[i])]]

NoTestSet == [n |-> 0, risk_scores |-> <<>>, y_test |-> <<>>, X_test |-> <<>>, impact |-> <<>>]

NoPolicy ==
    [keys |-> {}, threshold |-> 0, decision_labels |-> [block |-> "", allow |-> ""],
     policy_name |-> "", model_artifact |-> <<>>]

InitPipeline ==
    /\ RawBatchIs(raw)
    /\ processed_file = NoFile
    /\ features_file = NoFile
    /\ pre_run = Idle
    /\ feat_run = Idle
    /\ test_set = NoTestSet
    /\ explain_run = Idle
    /\ GLOBAL_OUT = NoFile
    /\ LOCAL_OUT = NoFile
    /\ policy = NoPolicy
    /\ cli_run = Idle
    /\ dash_run = Idle
    /\ audit_log = <<>>

NextPipeline == PreprocessMain \/ FeatureEngineeringMain

SpecPipeline == InitPipeline /\ [][NextPipeline]_vars

(***************************************************************************)
(* explainability_v1.py                                                    *)
(***************************************************************************)
\* bundle["features"]: the feature columns in the order train_xgb_v1 stored
\* them (the column order of the feature table).
feature_order == <<"txn_type_CASH_OUT", "txn_type_TRANSFER", "amount", "hour", "is_night">>

feature_cols == SubSeq(feature_order, 1, NumFeatures)

Abs(x) == IF x < 0 THEN -x ELSE x

\* np.argsort(risk_scores): the indices by ascending score.  The default
\* kind is not stable, so equal scores come in any order.
argsort_outcomes(scores) ==
    LET n == Cardinality(DOMAIN scores)
    IN  {[k \in 1..n |-> p[k] - 1] :
            p \in {q \in Injections(n, n) :
                     \A a, b \in 1..n : a < b => scores[q[a] - 1] <= scores[q[b] - 1]}}

Reverse(s) == [k \in 1..Len(s) |-> s[Len(s) + 1 - k]]

Take(s, k) == SubSeq(s, 1, Min(k, Len(s)))

\* The slice without the reversal.
top_risk_outcomes_NoReverse(scores) ==
    {Take(a, TOP_RISK_SAMPLES) : a \in argsort_outcomes(scores)}

\* Line 58: np.argsort(risk_scores)[::-1][:TOP_RISK_SAMPLES].
top_risk_outcomes(scores) ==
    {Take(Reverse(a), TOP_RISK_SAMPLES) : a \in argsort_outcomes(scores)}

\* Line 61: np.random.choice(n, size, replace=False) for size <= n: a sequence
\* of distinct indices (which one the seed fixes is not modelled).
choice_outcomes(n, size) == {[k \in 1..size |-> p[k] - 1] : p \in Injections(size, n)}

\* The concatenation without np.unique.
unique_concat_NoUnique(a, b) == a \o b

\* Line 64: np.unique(np.concatenate(...)): the distinct values, ascending.
unique_concat(a, b) ==
    LET U == Range(a) \cup Range(b)
    IN  [k \in 1..Cardinality(U) |->
            CHOOSE x \in U : Cardinality({y \in U : y < x}) = k - 1]

\* Lines 65-69: one impact row per row of X_sample = X_test[shap_indices].
shap_values_of(impact, shap_indices) ==
    [r \in 1..Len(shap_indices) |-> impact[shap_indices[r]]]

\* Line 74: np.abs(shap_values).mean(axis=0), as fractions.
mean_abs_shap(shap_values) ==
    [f \in 1..Len(feature_cols) |->
        [num |-> SumOver([r \in DOMAIN shap_values |-> Abs(shap_values[r][f])],
                         DOMAIN shap_values),
         den |-> Len(shap_values)]]

FracLess(a, b) == a.num * b.den < b.num * a.den

\* sorted(items, key, reverse=True): descending by key, items of equal key in
\* their original order (the sort is stable).  less[i][j] says that the key
\* of items[i] is below the key of items[j].
SortedDesc(items, less) ==
    LET n == Len(items)
        pos(i) == Cardinality({j \in 1..n : less[i][j]})
                  + Cardinality({j \in 1..(i - 1) : ~less[i][j] /\ ~less[j][i]})
                  + 1
    IN  [k \in 1..n |-> items[CHOOSE i \in 1..n : pos(i) = k]]

MeanLess(x, y) == FracLess(x.mean_abs_shap, y.mean_abs_shap)

\* The table left in feature order.
global_importance_of_Unsorted(shap_values) ==
    LET m == mean_abs_shap(shap_values)
    IN  [f \in 1..Len(feature_cols) |-> [feature |-> feature_cols[f], mean_abs_shap |-> m[f]]]

\* Lines 75-82.
global_importance_of(shap_values) ==
    LET m == mean_abs_shap(shap_values)
        items == [f \in 1..Len(feature_cols) |->
                     [feature |-> feature_cols[f], mean_abs_shap |-> m[f]]]
    IN  SortedDesc(items, [i \in DOMAIN items |-> [j \in DOMAIN items |->
                              MeanLess(items[i], items[j])]])

\* Line 92: np.where(shap_indices == idx)[0][0].
shap_idx_of(shap_indices, idx) ==
    CHOOSE r \in 1..Len(shap_indices) :
        /\ shap_indices[r] = idx
        /\ \A q \in 1..(r - 1) : shap_indices[q] # idx

AbsImpactLess(x, y) == Abs(x.shap_impact) < Abs(y.shap_impact)

ImpactLess(x, y) == x.shap_impact < y.shap_impact

\* The sort keyed on the signed impact.
top_drivers_of_Signed(shap_row, raw_feature_values) ==
    LET items == [f \in 1..Len(feature_cols) |->
                     [feature      |-> feature_cols[f],
                      shap_impact  |-> shap_row[f],
                      actual_value |-> raw_feature_values[f]]]
    IN  Take(SortedDesc(items, [i \in DOMAIN items |-> [j \in DOMAIN items |->
                                   ImpactLess(items[i], items[j])]]),
             TOP_K_FEATURES)

AbsImpactMore(x, y) == Abs(x.shap_impact) > Abs(y.shap_impact)

\* An ascending sort read backwards: equal impacts come out in reverse order.
top_drivers_of_ReversedTies(shap_row, raw_feature_values) ==
    LET items == [f \in 1..Len(feature_cols) |->
                     [feature      |-> feature_cols[f],
                      shap_impact  |-> shap_row[f],
                      actual_value |-> raw_feature_values[f]]]
    IN  Take(Reverse(SortedDesc(items, [i \in DOMAIN items |-> [j \in DOMAIN items |->
                                   AbsImpactMore(items[i], items[j])]])),
             TOP_K_FEATURES)

\* Lines 98-101: zip, sort by absolute impact, keep the first k.
top_drivers_of(shap_row, raw_feature_values) ==
    LET items == [f \in 1..Len(feature_cols) |->
                     [feature      |-> feature_cols[f],
                      shap_impact  |-> shap_row[f],
                      actual_value |-> raw_feature_values[f]]]
    IN  Take(SortedDesc(items, [i \in DOMAIN items |-> [j \in DOMAIN items |->
                                   AbsImpactLess(items[i], items[j])]]),
             TOP_K_FEATURES)

\* The impact row taken at the loop count instead of the looked-up position.
local_explanations_of_Positional(ts, top_risk_indices, shap_indices, shap_values) ==
    [k \in 1..Len(top_risk_indices) |->
        LET idx == top_risk_indices[k]
        IN  [transaction_index     |-> idx,
             predicted_risk_score  |-> ts.risk_scores[idx],
             actual_is_fraud_label |-> ts.y_test[idx],
             top_risk_drivers      |-> top_drivers_of(shap_values[k], ts.X_test[idx])]]

\* Lines 90-115.
local_explanations_of(ts, top_risk_indices, shap_indices, shap_values) ==
    [k \in 1..Len(top_risk_indices) |->
        LET idx == top_risk_indices[k]
        IN  [transaction_index     |-> idx,
             predicted_risk_score  |-> ts.risk_scores[idx],
             actual_is_fraud_label |-> ts.y_test[idx],
             top_risk_drivers      |->
                 top_drivers_of(shap_values[shap_idx_of(shap_indices, idx)], ts.X_test[idx])]]

\* main(), lines 35-122.  Asking for more samples than there are records is
\* np.random.choice's ValueError, raised before anything is written.
ExplainMain ==
    /\ explain_run.status = "idle"
    /\ test_set.n > 0
    /\ IF SHAP_SAMPLE_SIZE > test_set.n
       THEN /\ explain_run' = [status |-> "error", error |-> "ValueError"]
            /\ UNCHANGED <<GLOBAL_OUT, LOCAL_OUT>>
       ELSE \E top_risk_indices \in top_risk_outcomes(test_set.risk_scores),
               random_indices \in choice_outcomes(test_set.n, SHAP_SAMPLE_SIZE) :
              LET shap_indices == unique_concat(top_risk_indices, random_indices)
                  shap_values == shap_values_of(test_set.impact, shap_indices)
                  global_importance == global_importance_of(shap_values)
                  local_explanations ==
                      local_explanations_of(test_set, top_risk_indices, shap_indices, shap_values)
              IN  /\ explain_run' = [status             |-> "done",
                                     top_risk_indices   |-> top_risk_indices,
                                     random_indices     |-> random_indices,
                                     shap_indices       |-> shap_indices,
                                     shap_values        |-> shap_values,
                                     global_importance  |-> global_importance,
                                     local_explanations |-> local_explanations]
                  /\ GLOBAL_OUT' = [exists |-> TRUE, content |-> Take(global_importance, GLOBAL_TOP)]
                  /\ LOCAL_OUT' = [exists |-> TRUE, content |-> local_explanations]
    /\ UNCHANGED <<test_set, pipeline_vars, review_vars>>

(***************************************************************************)
(* Test sets the explainability script is run on.                          *)
(***************************************************************************)
ScoreVals == {1, 2}

ImpactVals == {-2, -1, 0, 1, 2}

Features == 1..NumFeatures

\* Rows with a single driver, first or last feature, and a row of equal
\* impacts.
SparseRows ==
    <<[f \in Features |-> IF f = 1 THEN 2 ELSE 0],
      [f \in Features |-> IF f = NumFeatures THEN -3 ELSE 0],
      [f \in Features |-> -1]>>

\* The sparse rows dealt to the records in turn, starting at any of them.
SparseMatrices(n) ==
    {[i \in 0..(n - 1) |-> SparseRows[((i + shift) % Len(SparseRows)) + 1]] :
        shift \in 0..(Len(SparseRows) - 1)}

RichRows == [Features -> ImpactVals]

RawValues(i) == [f \in Features |-> 10 * i + f]

TestSet(n, scores, impact) ==
    [n           |-> n,
     risk_scores |-> scores,
     y_test      |-> [i \in 0..(n - 1) |-> i % 2],
     X_test      |-> [i \in 0..(n - 1) |-> RawValues(i)],
     impact      |-> impact]

\* Any scores, ties included, over populations of every size.
WideTestSets ==
    UNION {{TestSet(n, scores, impact) :
              scores \in [0..(n - 1) -> ScoreVals],
              impact \in SparseMatrices(n)} :
           n \in 1..MaxPop}

\* Any impact row for the riskiest record of a smallest population.
DeepTestSets ==
    LET n == Min(SHAP_SAMPLE_SIZE, MaxPop)
    IN  {TestSet(n,
                 [i \in 0..(n - 1) |-> IF i = 0 THEN 2 ELSE 1],
                 [i \in 0..(n - 1) |-> IF i = 0 THEN row ELSE [f \in Features |-> -1]]) :
           row \in RichRows}

InitExplain ==
    /\ test_set \in WideTestSets \cup DeepTestSets
    /\ explain_run = Idle
    /\ GLOBAL_OUT = NoFile
    /\ LOCAL_OUT = NoFile
    /\ raw = [cols |-> {}, rows |-> <<>>]
    /\ processed_file = NoFile
    /\ features_file = NoFile
    /\ pre_run = Idle
    /\ feat_run = Idle
    /\ policy = NoPolicy
    /\ cli_run = Idle
    /\ dash_run = Idle
    /\ audit_log = <<>>

NextExplain == ExplainMain

SpecExplain == InitExplain /\ [][NextExplain]_vars

(***************************************************************************)
(* explain_cli.py, dashboard.py, audit/logger.py                           *)
(***************************************************************************)
\* A decision that blocks only strictly above the threshold.
dashboard_decision_Strict(score, pol) ==
    IF score > pol.threshold THEN pol.decision_labels.block ELSE pol.decision_labels.allow

\* explain_cli.py lines 32-36.
cli_decision(score, pol) ==
    IF score >= pol.threshold THEN pol.decision_labels.block ELSE pol.decision_labels.allow

\* dashboard.py line 68.
dashboard_decision(score, pol) ==
    IF score >= pol.threshold THEN pol.decision_labels.block ELSE pol.decision_labels.allow

\* logger.py lines 14-23: the payload appended as one line (the timestamp
\* added at line 20 is left out).
log_generation(log, audit_payload) == Append(log, audit_payload)

\* narrative_generator.py lines 51-87: what generate_insight returns (the
\* narrative text and the latency are left out): a narrative that passed or
\* failed the guardrail, or the record of a failed request.
generate_insight_outcomes ==
    {[guardrail_passed |-> TRUE, error |-> Null],
     [guardrail_passed |-> FALSE, error |-> Null],
     [guardrail_passed |-> FALSE, error |-> "RequestException"]}

\* path.split("/")[-1] on a path held as its sequence of segments.
LastSegment(path) == path[Len(path)]

\* The keys the audit record reads from the policy.
audit_policy_keys == {"model_artifact", "policy_name"}

\* explain_cli.py lines 55-65, dashboard.py lines 144-154.
audit_record_of(txn, score, decision, result, pol) ==
    [transaction_index |-> txn.transaction_index,
     risk_score        |-> score,
     decision          |-> decision,
     guardrail_passed  |-> result.guardrail_passed,
     error             |-> result.error,
     model_version     |-> LastSegment(pol.model_artifact),
     policy_version    |-> pol.policy_name,
     prompt_version    |-> "v1.0"]

\* explain_cli main(), lines 20-47: the policy and the samples are loaded,
\* the first saved record is taken and the decision is made and printed; the
\* process then waits in generate_insight.  An empty file is an IndexError at
\* samples[0].
CliDecide ==
    /\ cli_run.status = "idle"
    /\ LOCAL_OUT.exists
    /\ IF LOCAL_OUT.content = <<>>
       THEN cli_run' = [status |-> "error", error |-> "IndexError"]
       ELSE LET target_txn == LOCAL_OUT.content[1]
                score == target_txn.predicted_risk_score
            IN  cli_run' = [status     |-> "generating",
                            target_txn |-> target_txn,
                            score      |-> score,
                            decision   |-> cli_decision(score, policy)]
    /\ UNCHANGED <<policy, dash_run, audit_log, pipeline_vars, explain_vars>>

\* explain_cli main(), lines 47-68: generate_insight returns, the audit
\* record is built and appended.  A policy without model_artifact or
\* policy_name is a KeyError at line 62 or 63, before the append.
CliLog ==
    /\ cli_run.status = "generating"
    /\ IF ~(audit_policy_keys \subseteq policy.keys)
       THEN /\ cli_run' = [status            |-> "error",
                            error             |-> "KeyError",
                            transaction_index |-> cli_run.target_txn.transaction_index,
                            score             |-> cli_run.score,
                            decision          |-> cli_run.decision]
            /\ UNCHANGED audit_log
       ELSE \E result \in generate_insight_outcomes :
              /\ cli_run' = [status            |-> "done",
                             transaction_index |-> cli_run.target_txn.transaction_index,
                             score             |-> cli_run.score,
                             decision          |-> cli_run.decision]
              /\ audit_log' = log_generation(audit_log,
                                  audit_record_of(cli_run.target_txn, cli_run.score,
                                                  cli_run.decision, result, policy))
    /\ UNCHANGED <<policy, dash_run, pipeline_vars, explain_vars>>

\* dashboard.py lines 105-106: pd.DataFrame(drivers).sort_values(by=
\* "shap_impact").  The frame of an empty list has no column: a KeyError.
driver_chart_error(txn) == txn.top_risk_drivers = <<>>

\* One run of the dashboard script, lines 40-138: the data is loaded, the
\* analyst selects a transaction in the sidebar and the decision is shown;
\* when the button is pressed the script then waits in generate_insight.
\* With no transaction the selection is None, a KeyError at line 57; a policy
\* without policy_name or model_artifact is a KeyError at line 61 or 62,
\* before the decision; a record without drivers is a KeyError at line 106,
\* after the decision and before the button.
DashboardRender ==
    /\ dash_run.status = "idle"
    /\ LOCAL_OUT.exists
    /\ IF LOCAL_OUT.content = <<>> \/ ~(audit_policy_keys \subseteq policy.keys)
       THEN dash_run' = [status |-> "error", error |-> "KeyError"]
       ELSE \E k \in DOMAIN LOCAL_OUT.content, pressed \in BOOLEAN :
              LET selected_txn == LOCAL_OUT.content[k]
                  score == selected_txn.predicted_risk_score
                  decision == dashboard_decision(score, policy)
              IN  dash_run' = IF driver_chart_error(selected_txn)
                              THEN [status            |-> "error",
                                    error             |-> "KeyError",
                                    transaction_index |-> selected_txn.transaction_index,
                                    score             |-> score,
                                    decision          |-> decision]
                              ELSE IF pressed
                              THEN [status       |-> "generating",
                                    selected_txn |-> selected_txn,
                                    score        |-> score,
                                    decision     |-> decision]
                              ELSE [status            |-> "done",
                                    transaction_index |-> selected_txn.transaction_index,
                                    score             |-> score,
                                    decision          |-> decision]
    /\ UNCHANGED <<policy, cli_run, audit_log, pipeline_vars, explain_vars>>

\* The dashboard script, lines 141-155: generate_insight returns and the
\* audit record is appended.
DashboardLog ==
    /\ dash_run.status = "generating"
    /\ \E result \in generate_insight_outcomes :
          /\ dash_run' = [status            |-> "done",
                          transaction_index |-> dash_run.selected_txn.transaction_index,
                          score             |-> dash_run.score,
                          decision          |-> dash_run.decision]
          /\ audit_log' = log_generation(audit_log,
                              audit_record_of(dash_run.selected_txn, dash_run.score,
                                              dash_run.decision, result, policy))
    /\ UNCHANGED <<policy, cli_run, pipeline_vars, explain_vars>>

(***************************************************************************)
(* Saved explanations and policies the review tools are run on.  The       *)
(* explainability script may rewrite the explanation file while a review   *)
(* tool waits for its narrative.                                           *)
(***************************************************************************)
MaxSaved == 2

ReviewScores == {1, 2, 3}

\* Policy files: threshold and labels, with or without the two keys the
\* audit record and the sidebar read.
Policies ==
    {[keys            |-> {"threshold", "decision_labels"} \cup extra,
      threshold       |-> t,
      decision_labels |-> [block |-> "DECLINE", allow |-> "APPROVE"],
      policy_name     |-> "decision_policy_v1",
      model_artifact  |-> <<"artifacts", "models", "xgb_v1.joblib">>] :
        t \in ReviewScores, extra \in SUBSET audit_policy_keys}

\* Driver lists of a saved record: one driver, or none.
SavedDrivers ==
    {<<[feature |-> "amount", shap_impact |-> 2, actual_value |-> 10]>>, <<>>}

\* Explanation files with any scores; the records of a file have drivers or
\* all have none.
SavedExplanations ==
    UNION {{[k \in 1..n |->
                [transaction_index     |-> k - 1,
                 predicted_risk_score  |-> sc[k],
                 actual_is_fraud_label |-> 0,
                 top_risk_drivers      |-> drivers]] :
              sc \in [1..n -> ReviewScores], drivers \in SavedDrivers} :
           n \in 0..MaxSaved}

\* The test set a concurrent explainability run loads.
ReviewTestSet ==
    TestSet(SHAP_SAMPLE_SIZE,
            [i \in 0..(SHAP_SAMPLE_SIZE - 1) |-> IF i = 0 THEN 2 ELSE 1],
            [i \in 0..(SHAP_SAMPLE_SIZE - 1) |-> SparseRows[(i % Len(SparseRows)) + 1]])

InitReview ==
    /\ LOCAL_OUT \in {[exists |-> TRUE, content |-> c] : c \in SavedExplanations}
    /\ policy \in Policies
    /\ cli_run = Idle
    /\ dash_run = Idle
    /\ audit_log = <<>>
    /\ test_set = ReviewTestSet
    /\ explain_run = Idle
    /\ GLOBAL_OUT = NoFile
    /\ raw = [cols |-> {}, rows |-> <<>>]
    /\ processed_file = NoFile
    /\ features_file = NoFile
    /\ pre_run = Idle
    /\ feat_run = Idle

NextReview == CliDecide \/ CliLog \/ DashboardRender \/ DashboardLog \/ ExplainMain

SpecReview == InitReview /\ [][NextReview]_vars

(***************************************************************************)
(* The batch scripts together, on batches and test sets that make them     *)
(* fail: preprocessing, feature engineering and explainability, each run   *)
(* once, in any order.                                                     *)
(***************************************************************************)
\* Batches with at most one required column missing and with amounts and
\* labels the final assertions accept or reject.
FailingBatchIs(b) ==
    \E missing \in {{}} \cup {{c} : c \in SevenRequired}, n \in 1..2 :
       \E a \in [1..n -> {-5, 10}], l \in [1..n -> {0, 1, 2}] :
          b = [cols |-> AllColumns \ missing,
               rows |-> [i \in 1..n |-> RawRow(i, TypeAt(i), a[i], "C1", "M1", l[i])]]

\* Test sets of every size up to MaxPop, smaller than the baseline sample
\* included.
SizedTestSets ==
    {TestSet(n, [i \in 0..(n - 1) |-> i + 1],
             [i \in 0..(n - 1) |-> SparseRows[(i % Len(SparseRows)) + 1]]) :
        n \in 1..MaxPop}

InitBatch ==
    /\ FailingBatchIs(raw)
    /\ processed_file = NoFile
    /\ features_file = NoFile
    /\ pre_run = Idle
    /\ feat_run = Idle
    /\ test_set \in SizedTestSets
    /\ explain_run = Idle
    /\ GLOBAL_OUT = NoFile
    /\ LOCAL_OUT = NoFile
    /\ policy = NoPolicy
    /\ cli_run = Idle
    /\ dash_run = Idle
    /\ audit_log = <<>>

NextBatch == PreprocessMain \/ FeatureEngineeringMain \/ ExplainMain

SpecBatch == InitBatch /\ [][NextBatch]_vars

(***************************************************************************)
(* Properties of the pipeline (SpecPipeline).                              *)
(***************************************************************************)
ValidValues(rows) == \A i \in DOMAIN rows : rows[i].amount >= 0 /\ rows[i].isFraud \in {0, 1}

\* Two rows of the batch have the same source identifier (null included).
RepeatedAccount(rows) ==
    \E i, j \in DOMAIN rows : i # j /\ rows[i].nameOrig = rows[j].nameOrig

\* C1: whatever subset of the four leakage columns the raw batch carries, a
\* written processed or feature table has none of them, and no error names a
\* leakage column: a batch with the required columns and valid values is
\* preprocessed whether or not it carries them (the only error left to it is
\* the window error of a batch with a repeated account).
C1_NoLeakageColumns ==
    /\ processed_file.exists => processed_file.cols \cap LeakageNames = {}
    /\ features_file.exists => features_file.cols \cap LeakageNames = {}
    /\ pre_run.status = "error" => pre_run.missing \cap LeakageNames = {}
    /\ (pre_run.status # "idle" /\ SevenRequired \subseteq raw.cols /\ ValidValues(raw.rows))
          => \/ pre_run.status = "done" /\ processed_file.exists
             \/ /\ pre_run.status = "error"
                /\ pre_run.error = "ComputeError"
                /\ RepeatedAccount(raw.rows)

C1_Witness ==
    /\ features_file.exists
    /\ "oldbalanceOrg" \in raw.cols
    /\ "newbalanceDest" \notin raw.cols
    /\ "step" \in features_file.cols

\* C2: the schema check fails exactly when one of the seven required columns
\* is absent, then names all the absent ones (required minus present); extra
\* columns never make it fail.
C2_SchemaError ==
    pre_run.status # "idle" =>
        /\ (pre_run.status = "error" /\ pre_run.error = "Missing required columns")
              <=> (\E c \in SevenRequired : c \notin raw.cols)
        /\ (\E c \in SevenRequired : c \notin raw.cols)
              => pre_run.missing = SevenRequired \ raw.cols

C2_Witness ==
    /\ pre_run.status = "error"
    /\ pre_run.missing = {"amount", "isFraud", "nameDest"}
    /\ "extraColumn" \in raw.cols

\* C3: in a processed batch two rows carrying the same raw identifier, as
\* source or as destination, carry the same key, and a null raw identifier
\* has the null key.
C3_KeyDependsOnIdentifier ==
    processed_file.exists =>
        LET out == processed_file.rows
            orig(i) == raw.rows[out[i].row_nr].nameOrig
            dest(i) == raw.rows[out[i].row_nr].nameDest
        IN  \A i, j \in DOMAIN out :
              /\ orig(i) = orig(j) => out[i].account_id = out[j].account_id
              /\ dest(i) = dest(j) => out[i].counterparty_id = out[j].counterparty_id
              /\ orig(i) = dest(j) => out[i].account_id = out[j].counterparty_id
              /\ orig(i) = Null => out[i].account_id = Null
              /\ dest(i) = Null => out[i].counterparty_id = Null

C3_Witness ==
    /\ processed_file.exists
    /\ \E i, j, k \in DOMAIN processed_file.rows :
          LET out == processed_file.rows
          IN  /\ i # j
              /\ raw.rows[out[i].row_nr].nameOrig = "C2"
              /\ raw.rows[out[j].row_nr].nameDest = "C2"
              /\ out[i].account_id = out[j].counterparty_id
              /\ out[i].account_id # Null
              /\ raw.rows[out[k].row_nr].nameOrig = Null
              /\ out[k].account_id = Null

\* C4: a record flagged transfer_then_cashout is a cash-out, and a transfer
\* of the same account precedes it in the table at most 6 time units before.
C4_FlagImpliesPriorTransfer ==
    features_file.exists =>
        LET out == features_file.rows
            type(i) == raw.rows[out[i].row_nr].type
        IN  \A i \in DOMAIN out :
              out[i].transfer_then_cashout_6h = 1 =>
                /\ type(i) = "CASH_OUT"
                /\ \E j \in 1..(i - 1) :
                      /\ out[j].account_id = out[i].account_id
                      /\ type(j) = "TRANSFER"
                      /\ out[i].step - out[j].step >= 0
                      /\ out[i].step - out[j].step <= 6

C4_Witness ==
    /\ features_file.exists
    /\ \E i, j \in DOMAIN features_file.rows :
          LET out == features_file.rows
          IN  /\ out[i].transfer_then_cashout_6h = 1
              /\ out[i].step = 6
              /\ out[j].transfer_then_cashout_6h = 0
              /\ out[j].is_cash_out = 1
              /\ out[j].account_id = out[i].account_id

\* The raw row an output row was computed from.
RawOf(r) == raw.rows[r.row_nr]

\* A written table holds every raw row once, each with its own values and the
\* key of its own source identifier.
OneRowPerInputRow(out) ==
    /\ Len(out) = Len(raw.rows)
    /\ {out[i].row_nr : i \in DOMAIN out} = DOMAIN raw.rows
    /\ \A i \in DOMAIN out :
          /\ out[i].step = RawOf(out[i]).step
          /\ out[i].amount = RawOf(out[i]).amount
          /\ out[i].isFraud = RawOf(out[i]).isFraud
          /\ out[i].account_id = hash_identifier(RawOf(out[i]).nameOrig)
          /\ out[i].counterparty_id = hash_identifier(RawOf(out[i]).nameDest)

\* C11 as stated: the written tables have one row per input row and row i
\* describes input row i (the sort moves no row).
C11_RowPositionsKept ==
    /\ processed_file.exists =>
          /\ OneRowPerInputRow(processed_file.rows)
          /\ \A i \in DOMAIN processed_file.rows : processed_file.rows[i].row_nr = i
    /\ features_file.exists =>
          /\ OneRowPerInputRow(features_file.rows)
          /\ \A i \in DOMAIN features_file.rows : features_file.rows[i].row_nr = i

\* Rows in (account key, time) order: null keys first, then by key, rows of
\* one key by non-decreasing step.
InAccountTimeOrder(out) ==
    \A i, j \in DOMAIN out :
        i < j => \/ AccountRank(out[i].account_id) < AccountRank(out[j].account_id)
                 \/ /\ out[i].account_id = out[j].account_id
                    /\ out[i].step <= out[j].step

\* C11 amended: the written tables have one row per input row, each
\* describing one input row, and the rows are left in (account key, time)
\* order, not in input order.
C11_RowsInAccountTimeOrder ==
    /\ processed_file.exists =>
          /\ OneRowPerInputRow(processed_file.rows)
          /\ InAccountTimeOrder(processed_file.rows)
    /\ features_file.exists =>
          /\ OneRowPerInputRow(features_file.rows)
          /\ InAccountTimeOrder(features_file.rows)

C11_Witness ==
    /\ features_file.exists
    /\ Len(features_file.rows) = 3
    /\ features_file.rows[1].row_nr = 3
    /\ features_file.rows[3].row_nr = 1
    /\ RawOf(features_file.rows[1]).nameOrig = "C1"
    /\ RawOf(features_file.rows[3]).nameOrig = "C2"

\* The orders of the records of a table that put each account's records in
\* time order.
TimeOrders(out) ==
    {q \in Injections(Len(out), Len(out)) :
        \A a, b \in DOMAIN out :
            (a < b /\ out[q[a]].account_id = out[q[b]].account_id)
                => out[q[a]].step <= out[q[b]].step}

\* The records of i's account that come no later than i in the order q.
UpTo(out, q, i) ==
    {j \in DOMAIN out :
        /\ out[j].account_id = out[i].account_id
        /\ (CHOOSE k \in DOMAIN q : q[k] = j) <= (CHOOSE k \in DOMAIN q : q[k] = i)}

\* C12 as stated: there is a time order of each account's records in which,
\* for every record, the rolling count is min(position within the account,
\* window) and the rolling mean is the sum of the amounts of the record and
\* of the window - 1 records of the account right before it, divided by the
\* count; so a first record has count 1 and mean equal to its amount.
C12_RollingWindow ==
    processed_file.exists =>
        LET out == processed_file.rows
        IN  \E q \in TimeOrders(out) :
              \A i \in DOMAIN out :
                 LET pos == Cardinality(UpTo(out, q, i))
                     win == {j \in UpTo(out, q, i) :
                                pos - Cardinality(UpTo(out, q, j)) < WINDOW_SIZE}
                 IN  /\ out[i].txn_count_24h = Min(pos, WINDOW_SIZE)
                     /\ out[i].avg_amount_24h.den = Min(pos, WINDOW_SIZE)
                     /\ out[i].avg_amount_24h.num
                           = SumOver([j \in DOMAIN out |-> out[j].amount], win)
                     /\ pos = 1 => /\ out[i].txn_count_24h = 1
                                   /\ out[i].avg_amount_24h.num = out[i].amount

\* C13: recency is 0 for the first record of an account in the table and
\* otherwise the smaller of 168 and the step difference to the record of the
\* same account right before it; it lies in 0..168.
C13_RecencyClipped ==
    features_file.exists =>
        LET out == features_file.rows
        IN  \A i \in DOMAIN out :
              LET before == {j \in 1..(i - 1) : out[j].account_id = out[i].account_id}
                  v == out[i].time_since_last_txn_hr
              IN  /\ v \in 0..168
                  /\ before = {} => v = 0
                  /\ before # {} =>
                        \E j \in before :
                           /\ \A h \in before : h <= j
                           /\ v = Min(out[i].step - out[j].step, 168)

C13_Witness ==
    /\ features_file.exists
    /\ \E i, j \in DOMAIN features_file.rows :
          LET out == features_file.rows
          IN  /\ j = i - 1
              /\ out[j].account_id = out[i].account_id
              /\ out[i].step - out[j].step = 200
              /\ out[i].time_since_last_txn_hr = 168
              /\ out[j].time_since_last_txn_hr = 0

\* C14 as stated: on a batch where no transfer (or no cash-out) occurs the
\* feature computation still succeeds and is_transfer (is_cash_out) is 0 on
\* every record.
C14_AbsentTypeFlagsZero ==
    (/\ processed_file.exists
     /\ feat_run.status # "idle"
     /\ feat_run.error # "FileNotFoundError")
        => /\ feat_run.status = "done"
           /\ features_file.exists
           /\ (\A k \in DOMAIN raw.rows : raw.rows[k].type # "TRANSFER")
                 => \A i \in DOMAIN features_file.rows : features_file.rows[i].is_transfer = 0
           /\ (\A k \in DOMAIN raw.rows : raw.rows[k].type # "CASH_OUT")
                 => \A i \in DOMAIN features_file.rows : features_file.rows[i].is_cash_out = 0

\* The transfers of the same account that precede row i in the table.
TransfersBefore(out, i) ==
    {j \in 1..(i - 1) : /\ out[j].account_id = out[i].account_id
                         /\ RawOf(out[j]).type = "TRANSFER"}

\* The documented batch: a transfer and two cash-outs of one account at
\* units 0, 3 and 30.
IsExampleBatch ==
    /\ Len(raw.rows) = 3
    /\ [k \in 1..3 |-> raw.rows[k].step] = <<0, 3, 30>>
    /\ [k \in 1..3 |-> raw.rows[k].type] = <<"TRANSFER", "CASH_OUT", "CASH_OUT">>
    /\ raw.rows[1].nameOrig = raw.rows[2].nameOrig
    /\ raw.rows[2].nameOrig = raw.rows[3].nameOrig

\* C16: a cash-out record is flagged when a transfer of its account precedes
\* it in the table at most 6 units before, and is not flagged when the
\* preceding transfers of its account are all more than 6 units before or
\* there is none (a transfer of another account never counts); the records
\* at units 0, 3, 30 of the documented batch get 0, 1, 0.
C16_FlagComplete ==
    features_file.exists =>
        LET out == features_file.rows
        IN  /\ \A i \in DOMAIN out :
                  RawOf(out[i]).type = "CASH_OUT" =>
                    /\ (\E j \in TransfersBefore(out, i) : out[i].step - out[j].step <= 6)
                          => out[i].transfer_then_cashout_6h = 1
                    /\ (\A j \in TransfersBefore(out, i) : out[i].step - out[j].step > 6)
                          => out[i].transfer_then_cashout_6h = 0
            /\ IsExampleBatch =>
                  \A i \in DOMAIN out :
                      out[i].transfer_then_cashout_6h = (IF out[i].step = 3 THEN 1 ELSE 0)

C16_Witness ==
    /\ features_file.exists
    /\ IsExampleBatch
    /\ [i \in 1..3 |-> features_file.rows[i].step] = <<0, 3, 30>>
    /\ [i \in 1..3 |-> features_file.rows[i].transfer_then_cashout_6h] = <<0, 1, 0>>

(***************************************************************************)
(* Properties of the review tools (SpecReview).                            *)
(***************************************************************************)
\* A run that has made its decision (it may still wait for the narrative, or
\* have stopped in an error after deciding).
Decided(run) == "decision" \in DOMAIN run

DecisionMatches(run) ==
    /\ run.score >= policy.threshold => run.decision = policy.decision_labels.block
    /\ run.score < policy.threshold => run.decision = policy.decision_labels.allow

\* The record a waiting or finished run decided on.
DecidedIndex(run) ==
    IF "transaction_index" \in DOMAIN run THEN run.transaction_index
    ELSE IF "target_txn" \in DOMAIN run THEN run.target_txn.transaction_index
    ELSE run.selected_txn.transaction_index

\* C5: a decision made is the block label exactly when score >= threshold
\* (equality included), the allow label otherwise, in the CLI and in the
\* dashboard alike, on the score of the saved record decided on; every audit
\* record carries a decision that follows the same rule.
C5_DecisionRule ==
    /\ Decided(cli_run) =>
          /\ DecisionMatches(cli_run)
          /\ explain_run.status = "idle"
                => cli_run.score = LOCAL_OUT.content[1].predicted_risk_score
    /\ Decided(dash_run) =>
          /\ DecisionMatches(dash_run)
          /\ explain_run.status = "idle"
                => \E k \in DOMAIN LOCAL_OUT.content :
                      /\ LOCAL_OUT.content[k].transaction_index = DecidedIndex(dash_run)
                      /\ LOCAL_OUT.content[k].predicted_risk_score = dash_run.score
    /\ (Decided(cli_run) /\ Decided(dash_run) /\ cli_run.score = dash_run.score)
          => cli_run.decision = dash_run.decision
    /\ \A n \in DOMAIN audit_log :
          /\ audit_log[n].risk_score >= policy.threshold
                => audit_log[n].decision = policy.decision_labels.block
          /\ audit_log[n].risk_score < policy.threshold
                => audit_log[n].decision = policy.decision_labels.allow

C5_Witness ==
    /\ cli_run.status = "done"
    /\ dash_run.status = "done"
    /\ cli_run.score = policy.threshold
    /\ cli_run.decision = "DECLINE"
    /\ dash_run.score = policy.threshold
    /\ dash_run.decision = "DECLINE"
    /\ dash_run.transaction_index # cli_run.transaction_index
    /\ Len(audit_log) = 2
    /\ audit_log[1].transaction_index = dash_run.transaction_index
    /\ audit_log[2].transaction_index = cli_run.transaction_index

(***************************************************************************)
(* Properties of the explainability script (SpecExplain).                  *)
(***************************************************************************)
Done == explain_run.status = "done"

Population == DOMAIN test_set.risk_scores

\* C6 as stated: the top-risk list is the N highest scores, equal scores in
\* ascending index order (listed first and kept at the cut-off).
C6_TiesByAscendingIndex ==
    Done =>
        LET top == explain_run.top_risk_indices
            before(i, j) == \/ test_set.risk_scores[i] > test_set.risk_scores[j]
                            \/ test_set.risk_scores[i] = test_set.risk_scores[j] /\ i < j
        IN  /\ \A a, b \in DOMAIN top : a < b => before(top[a], top[b])
            /\ \A a \in DOMAIN top : \A j \in Population \ Range(top) : before(top[a], j)

\* C6 amended: the top-risk list holds min(N, population) distinct records in
\* non-increasing score order and no record left out scores higher than a
\* listed one; nothing is promised about the order of equal scores.
C6_TopRiskByScore ==
    Done =>
        LET top == explain_run.top_risk_indices
        IN  /\ Len(top) = Min(TOP_RISK_SAMPLES, test_set.n)
            /\ Range(top) \subseteq Population
            /\ \A a, b \in DOMAIN top : a # b => top[a] # top[b]
            /\ \A a, b \in DOMAIN top :
                  a < b => test_set.risk_scores[top[a]] >= test_set.risk_scores[top[b]]
            /\ \A a \in DOMAIN top : \A j \in Population \ Range(top) :
                  test_set.risk_scores[top[a]] >= test_set.risk_scores[j]

C6_Witness ==
    /\ Done
    /\ test_set.n = 3
    /\ \A i \in Population : test_set.risk_scores[i] = 2
    /\ explain_run.top_risk_indices[1] = 2
    /\ explain_run.top_risk_indices[2] = 1

\* C7: the indices impact values are requested for are the top-risk indices
\* and the baseline sample with no index twice: every top-risk index is
\* among them and there are at most N + M.
C7_SampleIndexSet ==
    Done =>
        LET si == explain_run.shap_indices
        IN  /\ \A a, b \in DOMAIN si : a # b => si[a] # si[b]
            /\ Range(si) = Range(explain_run.top_risk_indices)
                              \cup Range(explain_run.random_indices)
            /\ Len(si) <= TOP_RISK_SAMPLES + SHAP_SAMPLE_SIZE
            /\ Len(explain_run.shap_values) = Len(si)

C7_Witness ==
    /\ Done
    /\ Range(explain_run.top_risk_indices) \cap Range(explain_run.random_indices) # {}
    /\ ~(Range(explain_run.random_indices) \subseteq Range(explain_run.top_risk_indices))
    /\ Len(explain_run.shap_indices) = 3

FeaturePos(name) == CHOOSE f \in 1..Len(feature_cols) : feature_cols[f] = name

Listed(e) == {e.top_risk_drivers[k].feature : k \in DOMAIN e.top_risk_drivers}

PlaceOf(e, name) == CHOOSE k \in DOMAIN e.top_risk_drivers : e.top_risk_drivers[k].feature = name

ImpactOf(e, name) == test_set.impact[e.transaction_index][FeaturePos(name)]

Explanations == Range(LOCAL_OUT.content)

\* C8: every explanation lists exactly k drivers, each with the record's
\* impact for that feature, in non-increasing absolute impact, and no feature
\* left out has a larger absolute impact than the last one listed.
C8_TopDrivers ==
    Done =>
        \A e \in Explanations :
            LET d == e.top_risk_drivers
            IN  /\ Len(d) = TOP_K_FEATURES
                /\ \A k \in DOMAIN d : d[k].shap_impact = ImpactOf(e, d[k].feature)
                /\ \A a, b \in DOMAIN d : a # b => d[a].feature # d[b].feature
                /\ \A k \in 1..(Len(d) - 1) : Abs(d[k].shap_impact) >= Abs(d[k + 1].shap_impact)
                /\ \A name \in Range(feature_cols) \ Listed(e) :
                      Abs(ImpactOf(e, name)) <= Abs(d[Len(d)].shap_impact)

C8_Witness ==
    /\ Done
    /\ \E e \in Explanations :
          /\ Len(e.top_risk_drivers) = TOP_K_FEATURES
          /\ e.top_risk_drivers[1].shap_impact = -2
          /\ e.top_risk_drivers[1].feature = feature_cols[NumFeatures]
          /\ e.top_risk_drivers[2].shap_impact = 1
          /\ \E name \in Range(feature_cols) \ Listed(e) : ImpactOf(e, name) = 0

\* Ascending order of the feature names as strings.
FeatureNameRank(name) ==
    CASE name = "amount" -> 1
      [] name = "hour" -> 2
      [] name = "is_night" -> 3
      [] name = "txn_type_CASH_OUT" -> 4
      [] name = "txn_type_TRANSFER" -> 5

\* C9 as stated: of two features with equal absolute impact the one with the
\* smaller name is ranked first, and is the one kept at the k-th position.
C9_TiesByFeatureName ==
    Done =>
        \A e \in Explanations : \A f, g \in Range(feature_cols) :
            (/\ FeatureNameRank(f) < FeatureNameRank(g)
             /\ Abs(ImpactOf(e, f)) = Abs(ImpactOf(e, g))
             /\ g \in Listed(e))
                => f \in Listed(e) /\ PlaceOf(e, f) < PlaceOf(e, g)

\* C9 amended: of two features with equal absolute impact the one that comes
\* first in the model's feature list is ranked first, and is the one kept at
\* the k-th position.
C9_TiesByFeatureOrder ==
    Done =>
        \A e \in Explanations : \A f, g \in Range(feature_cols) :
            (/\ FeaturePos(f) < FeaturePos(g)
             /\ Abs(ImpactOf(e, f)) = Abs(ImpactOf(e, g))
             /\ g \in Listed(e))
                => f \in Listed(e) /\ PlaceOf(e, f) < PlaceOf(e, g)

C9_Witness ==
    /\ Done
    /\ \E e \in Explanations :
          /\ ImpactOf(e, "txn_type_CASH_OUT") = -1
          /\ ImpactOf(e, "txn_type_TRANSFER") = 1
          /\ ImpactOf(e, "amount") = -1
          /\ e.top_risk_drivers[1].feature = "txn_type_CASH_OUT"
          /\ e.top_risk_drivers[2].feature = "txn_type_TRANSFER"

\* Sum of the absolute impacts of a feature over a set of records.
AbsSum(S, name) ==
    SumOver([i \in Population |-> Abs(test_set.impact[i][FeaturePos(name)])], S)

\* A global-importance table over the records S: one entry per feature with
\* the mean over S, non-increasing, cut to the top count, nothing left out
\* above the last entry.
GlobalTableOver(S) ==
    LET G == GLOBAL_OUT.content
    IN  /\ Len(G) = Min(GLOBAL_TOP, Len(feature_cols))
        /\ \A a, b \in DOMAIN G : a # b => G[a].feature # G[b].feature
        /\ \A k \in DOMAIN G :
              /\ G[k].feature \in Range(feature_cols)
              /\ G[k].mean_abs_shap.den > 0
              /\ G[k].mean_abs_shap.num * Cardinality(S)
                    = AbsSum(S, G[k].feature) * G[k].mean_abs_shap.den
        /\ \A k \in 1..(Len(G) - 1) : ~FracLess(G[k].mean_abs_shap, G[k + 1].mean_abs_shap)
        /\ \A name \in Range(feature_cols) \ {G[k].feature : k \in DOMAIN G} :
              AbsSum(S, name) * G[Len(G)].mean_abs_shap.den
                  <= G[Len(G)].mean_abs_shap.num * Cardinality(S)

\* C10 as stated: the table is the mean absolute impact over the baseline
\* sample only, sorted descending, cut to the top count.
C10_MeanOverBaselineOnly ==
    Done => GlobalTableOver(Range(explain_run.random_indices))

\* C10 amended: the table is the mean absolute impact over the deduplicated
\* union of the top-risk records and the baseline sample, sorted descending,
\* cut to the top count.
C10_MeanOverUnion ==
    Done => GlobalTableOver(Range(explain_run.top_risk_indices)
                               \cup Range(explain_run.random_indices))

C10_Witness ==
    /\ Done
    /\ \E i \in Range(explain_run.top_risk_indices) \ Range(explain_run.random_indices) :
          test_set.impact[i][NumFeatures] = -3
    /\ Len(GLOBAL_OUT.content) < Len(feature_cols)
    /\ GLOBAL_OUT.content[1].feature = feature_cols[NumFeatures]
    /\ GLOBAL_OUT.content[2].feature = feature_cols[1]

\* The rows of the impact array computed for record idx.
RowsFor(idx) ==
    {r \in DOMAIN explain_run.shap_indices : explain_run.shap_indices[r] = idx}

\* C17: there is one explanation per top-risk index, in the same order; the
\* index set holds each of these indices at exactly one position, the impact
\* row at that position is the one of that record, and the impacts, raw
\* values, score and label of the explanation are those of that record.
C17_ExplanationAligned ==
    Done =>
        LET top == explain_run.top_risk_indices
            L == LOCAL_OUT.content
        IN  /\ Len(L) = Len(top)
            /\ \A k \in DOMAIN top :
                  LET idx == top[k]
                  IN  /\ L[k].transaction_index = idx
                      /\ Cardinality(RowsFor(idx)) = 1
                      /\ \A r \in RowsFor(idx) :
                            /\ explain_run.shap_values[r] = test_set.impact[idx]
                            /\ \A d \in Range(L[k].top_risk_drivers) :
                                  d.shap_impact
                                     = explain_run.shap_values[r][FeaturePos(d.feature)]
                      /\ L[k].predicted_risk_score = test_set.risk_scores[idx]
                      /\ L[k].actual_is_fraud_label = test_set.y_test[idx]
                      /\ \A d \in Range(L[k].top_risk_drivers) :
                            d.actual_value = test_set.X_test[idx][FeaturePos(d.feature)]

C17_Witness ==
    /\ Done
    /\ test_set.n = 4
    /\ explain_run.top_risk_indices = <<3, 2>>
    /\ explain_run.shap_indices = <<1, 2, 3>>
    /\ LOCAL_OUT.content[1].transaction_index = 3
    /\ LOCAL_OUT.content[1].top_risk_drivers[1].shap_impact = test_set.impact[3][1]
    /\ test_set.impact[3] # test_set.impact[1]

(***************************************************************************)
(* Properties of the scripts together (SpecBatch).                         *)
(***************************************************************************)
\* The failure conditions of a raw batch.
BatchRejected ==
    \/ \E c \in SevenRequired : c \notin raw.cols
    \/ \E i \in DOMAIN raw.rows : raw.rows[i].amount < 0
    \/ \E i \in DOMAIN raw.rows : raw.rows[i].isFraud \notin {0, 1}

\* C15: a preprocessing run on a batch that lacks a required column, has a
\* negative amount or a label outside {0, 1} ends in an error and leaves no
\* processed dataset; an explainability run asked for a baseline sample
\* larger than the population ends in an error and leaves neither the
\* global-importance file nor the explanation file.
C15_FailureIsFatal ==
    /\ (pre_run.status # "idle" /\ BatchRejected)
          => pre_run.status = "error" /\ ~processed_file.exists
    /\ pre_run.status = "error" => ~processed_file.exists
    /\ (explain_run.status # "idle" /\ SHAP_SAMPLE_SIZE > test_set.n)
          => explain_run.status = "error" /\ ~GLOBAL_OUT.exists /\ ~LOCAL_OUT.exists
    /\ explain_run.status = "error" => ~GLOBAL_OUT.exists /\ ~LOCAL_OUT.exists

C15_Witness ==
    /\ pre_run.status = "error"
    /\ pre_run.error = "Invalid fraud labels detected"
    /\ \A i \in DOMAIN raw.rows : raw.rows[i].amount >= 0
    /\ ~processed_file.exists
    /\ explain_run.status = "error"
    /\ test_set.n < SHAP_SAMPLE_SIZE
    /\ ~GLOBAL_OUT.exists
    /\ ~LOCAL_OUT.exists

====
